---- MODULE Spec2Model ----
(***************************************************************************)
(* A model of build.rs of openjdk-sys: the build script that finds the     *)
(* JDK, emits cargo's link directives, copies the java.base headers into   *)
(* a temporary directory, assembles the clang include flags and runs       *)
(* bindgen.                                                                *)
(*                                                                         *)
(* Representation.  A path is a sequence of components ("/" is the root    *)
(* component); Path::join is concatenation.  A line of text is a sequence  *)
(* of tokens: the token "java.home", the token "=", the white space token  *)
(* " " and words; the text after a position is the rest of the sequence    *)
(* and the path it names is the sequence of its words.  A println! of a    *)
(* cargo directive is a record of the key before '=' and the value after   *)
(* it; a clang argument "-I<dir>" is a record of the option and the path.  *)
(***************************************************************************)
EXTENDS Integers, Sequences, FiniteSets, TLC

\* Lines that each output stream of the `java` subprocess may hold.
MaxLines == 1
\* Entries (files and directories) below the root of the header source tree
\* that copy is run on alone.
MaxEntries == 3
\* Entries below the root of the header source tree of a run of main.
MaxHeaderEntries == 1
\* Entries below the root of the directory tree that WalkDir walks.
MaxWalkEntries == 3
\* Entries of a walked tree whose traversal yields an error.
MaxWalkErrors == 1

VARIABLES
    target_os,      \* cfg target_os the script is compiled for
    features,       \* cfg features: [desktop, jdwp, accessibility]
    env_JAVA_HOME,  \* the environment variable: [kind, val]
    src_fs,         \* the header source tree: set of [path, kind]
    pc,             \* position in main
    panic_msg,      \* message of the panic that ended the run, "" if none
    java_home,      \* main's java_home
    libjvm_path,    \* main's libjvm_path
    spawned,        \* number of Command::output() invocations
    directives,     \* cargo: lines printed by main, in order
    builder,        \* the bindgen::Builder: [header, clang_args, opaque]
    temp_dir,       \* the TempDir handle: [state, path]
    created,        \* number of temporary directories created
    dest_fs,        \* what exists below the system temp directory
    output_root,    \* copy's output_root
    stack,          \* copy's work stack
    popped,         \* the directories copy has popped, in order
    copy_result,    \* "none" (not called), "running", "Ok", "Err"
    generated,      \* "none", "Ok", "Err": the outcome of generate()
    out_writes,     \* number of times OUT_DIR/bindings.rs was opened for writing
    out_file,       \* content of OUT_DIR/bindings.rs
    home_tree,      \* the tree under the walked root (walk specification)
    walker,         \* the items the walker yields (walk specification)
    walk_result     \* what find_libjvm returned (walk specification)

vars == <<target_os, features, env_JAVA_HOME, src_fs, pc, panic_msg, java_home,
          libjvm_path, spawned, directives, builder, temp_dir, created, dest_fs,
          output_root, stack, popped, copy_result, generated, out_writes, out_file,
          home_tree, walker, walk_result>>

-----------------------------------------------------------------------------
(* Option<T> *)
None == [some |-> FALSE, val |-> <<>>]
Some(v) == [some |-> TRUE, val |-> v]

(* Path *)
join(p, q) == p \o q
file_name(p) == IF Len(p) = 0 THEN "" ELSE p[Len(p)]
parent(p) == IF Len(p) = 0 \/ p = <<"/">> THEN None
             ELSE Some(SubSeq(p, 1, Len(p) - 1))

-----------------------------------------------------------------------------
(* Target configuration *)

\* The targets the script compiles for: EXPECTED_JVM_FILENAME is defined for
\* these and no others.
TargetOSes == {"windows", "freebsd", "linux", "netbsd", "openbsd", "macos"}

EXPECTED_JVM_FILENAME(os) ==
    IF os = "windows" THEN "jvm.dll"
    ELSE IF os \in {"freebsd", "linux", "netbsd", "openbsd"} THEN "libjvm.so"
    ELSE "libjli.dylib"

\* cfg!(windows) and cfg!(target_family = "unix")
target_family(os) == IF os = "windows" THEN "windows" ELSE "unix"

Features == [desktop : BOOLEAN, jdwp : BOOLEAN, accessibility : BOOLEAN]

-----------------------------------------------------------------------------
(* Finite sets of sequences *)

SeqsUpTo(S, n) == UNION {[1..k -> S] : k \in 0..n}

\* The sequences that enumerate the finite set S.
Perms(S) ==
    {f \in [1..Cardinality(S) -> S] :
        \A i, j \in 1..Cardinality(S) : f[i] = f[j] => i = j}

-----------------------------------------------------------------------------
(* find_java_home: the `java -XshowSettings:properties -version` subprocess *)

\* Lines the subprocess may print.
JavaLines ==
    { <<" ", "java.home", " ", "=", " ", "/", "jdk", " ">>,
      <<"java.version", "=", "17">>,
      <<"java.home">>,
      <<"java.home", "=", " ">> }

\* Command::output(): Err when the process cannot be started, else both streams.
JavaOutputs ==
    { [started |-> FALSE, stdout |-> <<>>, stderr |-> <<>>] } \cup
    [started : {TRUE}, stdout : SeqsUpTo(JavaLines, MaxLines),
     stderr : SeqsUpTo(JavaLines, MaxLines)]

\* str::contains("java.home")
contains_java_home(line) == \E i \in 1..Len(line) : line[i] = "java.home"

\* str::find('='): the position of the first '='
find_eq(line) ==
    IF \E i \in 1..Len(line) : line[i] = "="
    THEN Some(CHOOSE i \in 1..Len(line) :
                 line[i] = "=" /\ \A j \in 1..(i - 1) : line[j] # "=")
    ELSE None

\* str::trim()
RECURSIVE trim_start(_)
trim_start(s) == IF s # <<>> /\ Head(s) = " " THEN trim_start(Tail(s)) ELSE s
RECURSIVE trim_end(_)
trim_end(s) ==
    IF s # <<>> /\ s[Len(s)] = " " THEN trim_end(SubSeq(s, 1, Len(s) - 1)) ELSE s
trim(s) == trim_end(trim_start(s))

\* The for loop of find_java_home over stdout.lines().chain(stderr.lines()).
\* The result is Some(path), None, or the panic of unwrap() on find('=').
RECURSIVE scan_lines(_)
scan_lines(lines) ==
    IF lines = <<>> THEN [kind |-> "None", val |-> <<>>]
    ELSE LET line == Head(lines) IN
         IF contains_java_home(line)
         THEN LET pos == find_eq(line) IN
              IF ~pos.some THEN [kind |-> "Panic", val |-> <<>>]
              ELSE [kind |-> "Some",
                    val |-> trim(SubSeq(line, pos.val + 1, Len(line)))]
         ELSE scan_lines(Tail(lines))

find_java_home(output) ==
    IF ~output.started THEN [kind |-> "None", val |-> <<>>]
    ELSE scan_lines(output.stdout \o output.stderr)

-----------------------------------------------------------------------------
(* find_libjvm: the walk of the directory tree under the home *)

ErrItem == [ok |-> FALSE, path |-> <<>>]
OkItem(p) == [ok |-> TRUE, path |-> p]

\* Relative paths a walked tree may hold, for a library file name.
WalkUniverse(lib) ==
    { <<"lib">>, <<"lib", "server">>, <<"lib", "server", lib>>, <<"lib", lib>>,
      <<"bin">>, <<lib>> }

PrefixClosed(S) ==
    \A p \in S : Len(p) > 1 => SubSeq(p, 1, Len(p) - 1) \in S

\* A tree maps the relative path of each entry (<<>> is the root) to how its
\* traversal goes: "ok"; "entry_err", the walker yields an error in place of
\* the entry; "read_dir_err", the entry is yielded and opening it fails.
HomeTrees(lib) ==
    LET Shapes == {T \in SUBSET WalkUniverse(lib) :
                      Cardinality(T) <= MaxWalkEntries /\ PrefixClosed(T)}
        Marked == UNION {[S \cup {<<>>} -> {"ok", "entry_err", "read_dir_err"}] :
                            S \in Shapes}
    IN {t \in Marked : Cardinality({p \in DOMAIN t : t[p] # "ok"}) <= MaxWalkErrors}

\* The orders in which a directory's entries may be read: a ranking of names.
Ranks(lib) ==
    LET N == {"lib", "server", "bin", lib} IN
    Perms(N)

\* walkdir::WalkDir::new(root).follow_links(true): depth first, a directory
\* before its entries.
RECURSIVE Visit(_, _, _, _)
RECURSIVE VisitAll(_, _, _, _, _)
Visit(root, tree, rank, rel) ==
    IF tree[rel] = "entry_err" THEN <<ErrItem>>
    ELSE <<OkItem(join(root, rel))>> \o
         (IF tree[rel] = "read_dir_err" THEN <<ErrItem>>
          ELSE VisitAll(root, tree, rank, rel,
                        SelectSeq(rank, LAMBDA n : (rel \o <<n>>) \in DOMAIN tree)))
VisitAll(root, tree, rank, rel, kids) ==
    IF kids = <<>> THEN <<>>
    ELSE Visit(root, tree, rank, rel \o <<Head(kids)>>) \o
         VisitAll(root, tree, rank, rel, Tail(kids))

WalkDir(root, tree, rank) == Visit(root, tree, rank, <<>>)

LibNames == {EXPECTED_JVM_FILENAME(os) : os \in TargetOSes}

\* The walks of every tree, with the paths relative to the root.
RelativeWalks ==
    [lib \in LibNames |->
        {WalkDir(<<>>, t, r) : t \in HomeTrees(lib), r \in Ranks(lib)}]

\* The walks of every tree that may lie under root; the empty path names
\* nothing, and its walk yields one error.
Walks(root, lib) ==
    IF root = <<>> THEN {<<ErrItem>>}
    ELSE {[i \in DOMAIN w |-> IF w[i].ok THEN OkItem(join(root, w[i].path))
                               ELSE ErrItem] : w \in RelativeWalks[lib]}

\* find_libjvm giving up at the first error of the walker.
RECURSIVE find_libjvm_AbortsOnError(_, _)
find_libjvm_AbortsOnError(items, os) ==
    IF items = <<>> THEN None
    ELSE LET entry == Head(items) IN
         IF ~entry.ok THEN None
         ELSE IF file_name(entry.path) = EXPECTED_JVM_FILENAME(os)
              THEN parent(entry.path)
              ELSE find_libjvm_AbortsOnError(Tail(items), os)

RECURSIVE find_libjvm(_, _)
find_libjvm(items, os) ==
    IF items = <<>> THEN None
    ELSE LET entry == Head(items) IN
         IF ~entry.ok THEN find_libjvm(Tail(items), os)
         ELSE IF file_name(entry.path) = EXPECTED_JVM_FILENAME(os)
              THEN parent(entry.path)
              ELSE find_libjvm(Tail(items), os)

-----------------------------------------------------------------------------
(* The file system: a set of entries [path, kind], kind "dir" or "file" *)

IsPrefix(p, q) == Len(p) <= Len(q) /\ SubSeq(q, 1, Len(p)) = p

exists(fs, p) == \E e \in fs : e.path = p
is_dir(fs, p) == \E e \in fs : e.path = p /\ e.kind = "dir"

\* The entries of directory p
read_dir(fs, p) == {e \in fs : Len(e.path) = Len(p) + 1 /\ IsPrefix(p, e.path)}

\* fs::create_dir_all below the system temporary directory <<"tmp">>
create_dir_all(fs, p) ==
    fs \cup {[path |-> SubSeq(p, 1, k), kind |-> "dir"] :
                k \in {n \in 2..Len(p) : ~exists(fs, SubSeq(p, 1, n))}}

\* fs::copy of a file to dest_path
fs_copy(fs, dest_path) ==
    {e \in fs : e.path # dest_path} \cup {[path |-> dest_path, kind |-> "file"]}

\* fs::rename(a, b), a exists
fs_rename(fs, a, b) ==
    {e \in fs : e.path # a /\ e.path # b} \cup
    {[path |-> b, kind |-> e.kind] : e \in {x \in fs : x.path = a}}

TMP == <<"tmp">>

-----------------------------------------------------------------------------
(* The header source tree jdk/src/java.base/share/native/include/ *)

FROM == <<"jdk", "src", "java.base", "share", "native", "include">>

TEMPLATE == "classfile_constants.h.template"
NON_TEMPLATE == "classfile_constants.h"

\* Relative paths a source tree may hold, with their kinds.
HeaderUniverse ==
    { [path |-> <<TEMPLATE>>, kind |-> "file"],
      [path |-> <<NON_TEMPLATE>>, kind |-> "file"],
      [path |-> <<"jni.h">>, kind |-> "file"],
      [path |-> <<"a">>, kind |-> "dir"],
      [path |-> <<"a", "jni_md.h">>, kind |-> "file"],
      [path |-> <<"a", "b">>, kind |-> "dir"],
      [path |-> <<"c">>, kind |-> "dir"] }

\* The source trees: the directory is missing, or it holds up to n entries.
HeaderTrees(n) ==
    { {} } \cup
    { {[path |-> FROM, kind |-> "dir"]} \cup
      {[path |-> join(FROM, e.path), kind |-> e.kind] : e \in S} :
        S \in {T \in SUBSET HeaderUniverse :
                  /\ Cardinality(T) <= n
                  /\ PrefixClosed({e.path : e \in T})} }

-----------------------------------------------------------------------------
(* copy(from, to) *)

\* Where an I/O error may strike in one iteration of the while loop over a
\* directory of n entries: nowhere, in create_dir_all, in read_dir, or at the
\* k-th entry (entry? or fs::copy).
FailPoints(n) ==
    { [at |-> "none", k |-> 0], [at |-> "create_dir_all", k |-> 0],
      [at |-> "read_dir", k |-> 0] } \cup
    { [at |-> "entry", k |-> i] : i \in 1..n }

\* The for loop with the directories left out of the work stack.
RECURSIVE for_entries_SkipsDirs(_, _, _)
for_entries_SkipsDirs(entries, dest, st) ==
    IF entries = <<>> THEN st
    ELSE LET path == Head(entries).path IN
         for_entries_SkipsDirs(Tail(entries), dest,
            IF Head(entries).kind = "dir"
            THEN st
            ELSE [st EXCEPT !.fs = fs_copy(st.fs, join(dest, <<file_name(path)>>))])

\* The body of the for loop, for the entries in the order read_dir gives them.
RECURSIVE for_entries(_, _, _)
for_entries(entries, dest, st) ==
    IF entries = <<>> THEN st
    ELSE LET path == Head(entries).path IN
         for_entries(Tail(entries), dest,
            IF Head(entries).kind = "dir"
            THEN [st EXCEPT !.stack = Append(st.stack, path)]
            ELSE [st EXCEPT !.fs = fs_copy(st.fs, join(dest, <<file_name(path)>>))])

\* Lines 190-197: the destination of working_path
dest_of(working_path, root, input_root) ==
    LET src == SubSeq(working_path, input_root + 1, Len(working_path))
    IN IF Len(src) = 0 THEN root ELSE join(root, src)

\* One iteration of `while let Some(working_path) = stack.pop()`: the state
\* [stack, fs, result] after it.  The function returns Err at the first I/O
\* error and Ok(()) when the stack is empty.
copy_iteration(stk, fs, root, input_root, order, fail) ==
    LET working_path == stk[Len(stk)]
        rest == SubSeq(stk, 1, Len(stk) - 1)
        dest == dest_of(working_path, root, input_root)
        made == IF ~exists(fs, dest) THEN create_dir_all(fs, dest) ELSE fs
        upto == IF fail.at = "entry" THEN SubSeq(order, 1, fail.k - 1) ELSE order
        after == for_entries(upto, dest, [stack |-> rest, fs |-> made])
    IN  IF fail.at = "create_dir_all"
        THEN [stack |-> rest, fs |-> fs, result |-> "Err"]
        ELSE IF fail.at = "read_dir"
        THEN [stack |-> rest, fs |-> made, result |-> "Err"]
        ELSE [stack |-> after.stack, fs |-> after.fs,
              result |-> IF fail.at = "entry" THEN "Err"
                         ELSE IF after.stack = <<>> THEN "Ok" ELSE "running"]

\* Lines 180-184: the locals of copy before the loop.
CopyStart(from, to) ==
    /\ stack' = <<from>>
    /\ output_root' = to
    /\ popped' = <<>>
    /\ copy_result' = "running"

\* Lines 186-221: one iteration of the loop.
CopyIter ==
    /\ copy_result = "running"
    /\ stack # <<>>
    /\ LET working_path == stack[Len(stack)]
           entries == read_dir(src_fs, working_path)
       IN \E order \in Perms(entries) : \E fail \in FailPoints(Len(order)) :
            /\ fail.at = "create_dir_all" =>
                  ~exists(dest_fs, dest_of(working_path, output_root, Len(FROM)))
            /\ ~is_dir(src_fs, working_path) => fail.at \in {"create_dir_all", "read_dir"}
            /\ LET st == copy_iteration(stack, dest_fs, output_root, Len(FROM),
                                        order, fail)
               IN /\ stack' = st.stack
                  /\ dest_fs' = st.fs
                  /\ copy_result' = st.result
            /\ popped' = Append(popped, working_path)
    /\ UNCHANGED <<target_os, features, env_JAVA_HOME, src_fs, pc, panic_msg,
                   java_home, libjvm_path, spawned, directives, builder, temp_dir,
                   created, output_root, generated, out_writes, out_file,
                   home_tree, walker, walk_result>>

-----------------------------------------------------------------------------
(* main *)

EnvValues ==
    { [kind |-> "NotPresent", val |-> <<>>],
      [kind |-> "NotUnicode", val |-> <<>>],
      [kind |-> "Ok", val |-> <<"/", "custom", "path">>] }

MSG_HOME == "Failed to find Java home directory. Try setting JAVA_HOME"
MSG_UNWRAP == "called Option::unwrap() on a None value"
MSG_LIBJVM == "Failed to find EXPECTED_JVM_FILENAME. Check JAVA_HOME"
MSG_TEMPDIR == "Cannot create temporary build directory"
MSG_COPY == "Cannot copy java.base includes"
MSG_RENAME == "Cannot rename template file to non-template file"
MSG_GENERATE == "Unable to generate bindings"
MSG_WRITE == "Couldn't write bindings!"

I(dir) == [opt |-> "-I", val |-> dir]

\* TempDir's Drop removes the directory and what it holds, unless the handle
\* was forgotten (or there is none).
drop_temp_dir(handle, fs) ==
    IF handle.state = "live" THEN {e \in fs : ~IsPrefix(handle.path, e.path)}
    ELSE fs

\* The handle left as it is: the call of forget is missing.
forget_Missing(handle) == handle

\* std::mem::forget
forget(handle) == [handle EXCEPT !.state = "forgotten"]

panic(msg) ==
    /\ pc' = "panic"
    /\ panic_msg' = msg

\* Lines 20-26
ResolveHome ==
    /\ pc = "start"
    /\ IF env_JAVA_HOME.kind = "Ok"
       THEN /\ java_home' = Some(env_JAVA_HOME.val)
            /\ pc' = "find_libjvm"
            /\ UNCHANGED <<spawned, panic_msg>>
       ELSE \E output \in JavaOutputs :
              LET r == find_java_home(output) IN
              /\ spawned' = spawned + 1
              /\ IF r.kind = "Some"
                 THEN /\ java_home' = Some(r.val)
                      /\ pc' = "find_libjvm"
                      /\ UNCHANGED panic_msg
                 ELSE /\ panic(IF r.kind = "Panic" THEN MSG_UNWRAP ELSE MSG_HOME)
                      /\ UNCHANGED java_home
    /\ UNCHANGED <<target_os, features, env_JAVA_HOME, src_fs, libjvm_path,
                   directives, builder, temp_dir, created, dest_fs, output_root,
                   stack, popped, copy_result, generated, out_writes, out_file,
                   home_tree, walker, walk_result>>

\* Lines 28-29
LocateLibrary ==
    /\ pc = "find_libjvm"
    /\ \E items \in Walks(java_home.val, EXPECTED_JVM_FILENAME(target_os)) :
          LET r == find_libjvm(items, target_os) IN
          IF r.some
          THEN /\ libjvm_path' = r
               /\ pc' = "link"
               /\ UNCHANGED panic_msg
          ELSE /\ panic(MSG_LIBJVM)
               /\ UNCHANGED libjvm_path
    /\ UNCHANGED <<target_os, features, env_JAVA_HOME, src_fs, java_home, spawned,
                   directives, builder, temp_dir, created, dest_fs, output_root,
                   stack, popped, copy_result, generated, out_writes, out_file,
                   home_tree, walker, walk_result>>

Line(text, arg) == [text |-> text, arg |-> arg]

\* The directives without the macOS workaround.
link_directives_AlwaysJvm(os, home, lib_dir) ==
    <<Line("cargo:rustc-link-search=native=", lib_dir)>> \o
    (IF target_family(os) = "windows"
     THEN <<Line("cargo:rustc-link-search=", join(home, <<"lib">>))>> ELSE <<>>) \o
    <<Line("cargo:rerun-if-env-changed=JAVA_HOME", <<>>)>> \o
    <<Line("cargo:rustc-link-lib=dylib=jvm", <<>>)>> \o
    <<Line("cargo:rerun-if-changed=wrapper.h", <<>>)>>

\* Lines 31-51: what main prints for cargo
link_directives(os, home, lib_dir) ==
    <<Line("cargo:rustc-link-search=native=", lib_dir)>> \o
    (IF target_family(os) = "windows"
     THEN <<Line("cargo:rustc-link-search=", join(home, <<"lib">>))>> ELSE <<>>) \o
    <<Line("cargo:rerun-if-env-changed=JAVA_HOME", <<>>)>> \o
    (IF os = "macos" THEN <<Line("cargo:rustc-link-lib=dylib=jli", <<>>)>>
     ELSE <<Line("cargo:rustc-link-lib=dylib=jvm", <<>>)>>) \o
    <<Line("cargo:rerun-if-changed=wrapper.h", <<>>)>>

EmitLinkDirectives ==
    /\ pc = "link"
    /\ directives' = directives \o
                       link_directives(target_os, java_home.val, libjvm_path.val)
    /\ pc' = "builder"
    /\ UNCHANGED <<target_os, features, env_JAVA_HOME, src_fs, panic_msg, java_home,
                   libjvm_path, spawned, builder, temp_dir, created, dest_fs,
                   output_root, stack, popped, copy_result, generated, out_writes,
                   out_file, home_tree, walker, walk_result>>

\* Lines 53-55
NewBuilder ==
    /\ pc = "builder"
    /\ builder' = [header |-> <<"wrapper.h">>,
                   clang_args |-> <<I(<<"jdk", "src", "hotspot", "share", "include">>)>>,
                   opaque |-> <<>>]
    /\ pc' = "tempdir"
    /\ UNCHANGED <<target_os, features, env_JAVA_HOME, src_fs, panic_msg, java_home,
                   libjvm_path, spawned, directives, temp_dir, created, dest_fs,
                   output_root, stack, popped, copy_result, generated, out_writes,
                   out_file, home_tree, walker, walk_result>>

\* Lines 120-123 and 180-184: TempDir::new, then the call of copy.
TempDirNew ==
    /\ pc = "tempdir"
    /\ \E ok \in BOOLEAN :
          IF ok
          THEN LET path == join(TMP, <<"openjdk-sys-build.0">>) IN
               /\ temp_dir' = [state |-> "live", path |-> path]
               /\ created' = created + 1
               /\ dest_fs' = dest_fs \cup {[path |-> path, kind |-> "dir"]}
               /\ CopyStart(FROM, path)
               /\ pc' = "copy"
               /\ UNCHANGED panic_msg
          ELSE /\ panic(MSG_TEMPDIR)
               /\ UNCHANGED <<temp_dir, created, dest_fs, output_root, stack, popped,
                              copy_result>>
    /\ UNCHANGED <<target_os, features, env_JAVA_HOME, src_fs, java_home,
                   libjvm_path, spawned, directives, builder, generated, out_writes,
                   out_file, home_tree, walker, walk_result>>

\* A panic that leaves the temporary directory behind.
panic_unwinding_Leaks(msg) ==
    /\ panic(msg)
    /\ UNCHANGED <<dest_fs, temp_dir>>

\* A panic in create_java_base_includes unwinds through temp_dir.
panic_unwinding(msg) ==
    /\ panic(msg)
    /\ dest_fs' = drop_temp_dir(temp_dir, dest_fs)
    /\ temp_dir' = [temp_dir EXCEPT !.state = "dropped"]

\* Lines 123-127: the expect on copy's result, then the rename of the template.
RenameTemplate ==
    /\ pc = "copy"
    /\ copy_result \in {"Ok", "Err"}
    /\ IF copy_result = "Err"
       THEN panic_unwinding(MSG_COPY)
       ELSE LET template_file == join(temp_dir.path, <<TEMPLATE>>)
                non_template_file == join(temp_dir.path, <<NON_TEMPLATE>>)
            IN \E io_ok \in BOOLEAN :
                 IF exists(dest_fs, template_file) /\ io_ok
                 THEN /\ dest_fs' = fs_rename(dest_fs, template_file, non_template_file)
                      /\ pc' = "forget"
                      /\ UNCHANGED <<panic_msg, temp_dir>>
                 ELSE panic_unwinding(MSG_RENAME)
    /\ stack' = <<>>
    /\ popped' = <<>>
    /\ output_root' = <<>>
    /\ UNCHANGED <<target_os, features, env_JAVA_HOME, src_fs, java_home,
                   libjvm_path, spawned, directives, builder, created, copy_result,
                   generated, out_writes, out_file, home_tree, walker, walk_result>>

\* Lines 129-134: forget the handle, add the include flag, return; a handle
\* still live at the end of the function is dropped there.
ForgetAndReturn ==
    /\ pc = "forget"
    /\ LET handle == forget(temp_dir) IN
       /\ dest_fs' = drop_temp_dir(handle, dest_fs)
       /\ temp_dir' = IF handle.state = "live"
                      THEN [handle EXCEPT !.state = "dropped"] ELSE handle
    /\ builder' = [builder EXCEPT !.clang_args = Append(@, I(temp_dir.path))]
    /\ pc' = "includes"
    /\ UNCHANGED <<target_os, features, env_JAVA_HOME, src_fs, panic_msg, java_home,
                   libjvm_path, spawned, directives, created, output_root, stack,
                   popped, copy_result, generated, out_writes, out_file, home_tree,
                   walker, walk_result>>

\* Lines 59-102: the include flags of the platform and the features
platform_clang_args(os, feats) ==
    (IF os = "windows"
     THEN <<I(<<"jdk", "src", "java.base", "windows", "native", "include">>),
            I(<<"jdk", "src", "hotspot", "os", "windows", "include">>),
            I(<<"jdk", "src", "java.base", "windows", "native", "libjli">>)>>
     ELSE <<>>) \o
    (IF os = "posix"
     THEN <<I(<<"jdk", "src", "hotspot", "os", "posix", "include">>)>> ELSE <<>>) \o
    (IF target_family(os) = "unix"
     THEN <<I(<<"jdk", "src", "java.base", "unix", "native", "include">>),
            I(<<"jdk", "src", "java.base", "unix", "native", "libjli">>)>>
     ELSE <<>>) \o
    (IF os = "aix"
     THEN <<I(<<"jdk", "src", "java.base", "aix", "native", "libjli">>)>> ELSE <<>>) \o
    (IF feats.desktop
     THEN <<I(<<"jdk", "src", "java.desktop", "share", "native", "include">>)>> \o
          (IF os = "windows"
           THEN <<I(<<"jdk", "src", "java.desktop", "windows", "native", "include">>)>>
           ELSE <<>>) \o
          (IF os = "macos"
           THEN <<I(<<"jdk", "src", "java.desktop", "macosx", "native", "include">>)>>
           ELSE <<>>) \o
          (IF target_family(os) = "unix"
           THEN <<I(<<"jdk", "src", "java.desktop", "unix", "native", "include">>)>>
           ELSE <<>>)
     ELSE <<>>) \o
    (IF feats.jdwp
     THEN <<I(<<"jdk", "src", "jdk.jdwp.agent", "share", "native">>)>> ELSE <<>>) \o
    (IF feats.accessibility /\ os = "windows"
     THEN <<I(<<"jdk", "src", "jdk.accessibility", "windows", "native", "include">>)>>
     ELSE <<>>)

\* Lines 59-105
AssembleIncludes ==
    /\ pc = "includes"
    /\ builder' = [builder EXCEPT
                     !.clang_args = @ \o platform_clang_args(target_os, features),
                     !.opaque = Append(@, "_IMAGE_TLS_DIRECTORY64")]
    /\ pc' = "generate"
    /\ UNCHANGED <<target_os, features, env_JAVA_HOME, src_fs, panic_msg, java_home,
                   libjvm_path, spawned, directives, temp_dir, created, dest_fs,
                   output_root, stack, popped, copy_result, generated, out_writes,
                   out_file, home_tree, walker, walk_result>>

\* Generate with the failure of generate() ignored: main goes on to write.
Generate_IgnoresFailure ==
    /\ pc = "generate"
    /\ \E ok \in BOOLEAN :
          /\ generated' = IF ok THEN "Ok" ELSE "Err"
          /\ pc' = "write"
          /\ UNCHANGED panic_msg
    /\ UNCHANGED <<target_os, features, env_JAVA_HOME, src_fs, java_home,
                   libjvm_path, spawned, directives, builder, temp_dir, created,
                   dest_fs, output_root, stack, popped, copy_result, out_writes,
                   out_file, home_tree, walker, walk_result>>

\* Lines 107-110: bindgen either returns the bindings or fails.
Generate ==
    /\ pc = "generate"
    /\ \E ok \in BOOLEAN :
          IF ok
          THEN /\ generated' = "Ok"
               /\ pc' = "write"
               /\ UNCHANGED panic_msg
          ELSE /\ generated' = "Err"
               /\ panic(MSG_GENERATE)
    /\ UNCHANGED <<target_os, features, env_JAVA_HOME, src_fs, java_home,
                   libjvm_path, spawned, directives, builder, temp_dir, created,
                   dest_fs, output_root, stack, popped, copy_result, out_writes,
                   out_file, home_tree, walker, walk_result>>

MSG_OUT_DIR == "called Result::unwrap() on an Err value: NotPresent"

\* Lines 113-116: OUT_DIR is read, the file is created (truncated) and written;
\* the write may fail before or after the file was opened.
WriteBindings ==
    /\ pc = "write"
    /\ \E how \in {"ok", "no_out_dir", "open_fails", "write_fails"} :
          /\ pc' = IF how = "ok" THEN "done" ELSE "panic"
          /\ panic_msg' = IF how = "ok" THEN panic_msg
                          ELSE IF how = "no_out_dir" THEN MSG_OUT_DIR ELSE MSG_WRITE
          /\ out_writes' = IF how \in {"ok", "write_fails"}
                           THEN out_writes + 1 ELSE out_writes
          /\ out_file' = IF how = "ok" THEN "bindings"
                         ELSE IF how = "write_fails" THEN "partial" ELSE out_file
    /\ UNCHANGED <<target_os, features, env_JAVA_HOME, src_fs, java_home,
                   libjvm_path, spawned, directives, builder, temp_dir, created,
                   dest_fs, output_root, stack, popped, copy_result, generated,
                   home_tree, walker, walk_result>>

-----------------------------------------------------------------------------
(* The run of the build script *)

Init ==
    /\ target_os \in TargetOSes
    /\ features \in Features
    /\ env_JAVA_HOME \in EnvValues
    /\ src_fs \in HeaderTrees(MaxHeaderEntries)
    /\ pc = "start"
    /\ panic_msg = ""
    /\ java_home = None
    /\ libjvm_path = None
    /\ spawned = 0
    /\ directives = <<>>
    /\ builder = [header |-> <<>>, clang_args |-> <<>>, opaque |-> <<>>]
    /\ temp_dir = [state |-> "none", path |-> <<>>]
    /\ created = 0
    /\ dest_fs = {}
    /\ output_root = <<>>
    /\ stack = <<>>
    /\ popped = <<>>
    /\ copy_result = "none"
    /\ generated = "none"
    /\ out_writes = 0
    /\ out_file = "prior"
    /\ home_tree = <<>>
    /\ walker = <<>>
    /\ walk_result = None

Next ==
    \/ ResolveHome
    \/ LocateLibrary
    \/ EmitLinkDirectives
    \/ NewBuilder
    \/ TempDirNew
    \/ CopyIter
    \/ RenameTemplate
    \/ ForgetAndReturn
    \/ AssembleIncludes
    \/ Generate
    \/ WriteBindings

Spec == Init /\ [][Next]_vars

-----------------------------------------------------------------------------
(* find_libjvm on its own: a tree is fixed, and walked in every order *)

WalkRoots(lib) == { <<"/", "jdk">>, <<lib>> }

\* The variables of main that a function run on its own leaves alone.
MainIdle ==
    /\ features = [desktop |-> FALSE, jdwp |-> FALSE, accessibility |-> FALSE]
    /\ env_JAVA_HOME = [kind |-> "NotPresent", val |-> <<>>]
    /\ panic_msg = ""
    /\ libjvm_path = None
    /\ spawned = 0
    /\ directives = <<>>
    /\ builder = [header |-> <<>>, clang_args |-> <<>>, opaque |-> <<>>]
    /\ temp_dir = [state |-> "none", path |-> <<>>]
    /\ created = 0
    /\ generated = "none"
    /\ out_writes = 0
    /\ out_file = "prior"

WalkInit ==
    /\ MainIdle
    /\ target_os \in TargetOSes
    /\ java_home \in {Some(r) : r \in WalkRoots(EXPECTED_JVM_FILENAME(target_os))}
    /\ home_tree \in HomeTrees(EXPECTED_JVM_FILENAME(target_os))
    /\ pc = "walk"
    /\ walker = <<>>
    /\ walk_result = None
    /\ src_fs = {}
    /\ dest_fs = {}
    /\ output_root = <<>>
    /\ stack = <<>>
    /\ popped = <<>>
    /\ copy_result = "none"

\* find_libjvm(path): the walker is made and consumed, lines 160-177.
WalkTree ==
    /\ pc = "walk"
    /\ \E rank \in Ranks(EXPECTED_JVM_FILENAME(target_os)) :
          LET items == WalkDir(java_home.val, home_tree, rank) IN
          /\ walker' = items
          /\ walk_result' = find_libjvm(items, target_os)
    /\ pc' = "walked"
    /\ UNCHANGED <<target_os, features, env_JAVA_HOME, src_fs, panic_msg, java_home,
                   libjvm_path, spawned, directives, builder, temp_dir, created,
                   dest_fs, output_root, stack, popped, copy_result, generated,
                   out_writes, out_file, home_tree>>

WalkNext == WalkTree

WalkSpec == WalkInit /\ [][WalkNext]_vars

-----------------------------------------------------------------------------
(* copy on its own: from a source tree into a directory that may be missing *)

COPY_TO == <<"tmp", "to">>

CopyInit ==
    /\ MainIdle
    /\ target_os = "linux"
    /\ java_home = None
    /\ src_fs \in HeaderTrees(MaxEntries)
    /\ dest_fs \in { {}, {[path |-> COPY_TO, kind |-> "dir"]} }
    /\ pc = "copy"
    /\ output_root = <<>>
    /\ stack = <<>>
    /\ popped = <<>>
    /\ copy_result = "none"
    /\ home_tree = <<>>
    /\ walker = <<>>
    /\ walk_result = None

\* The call copy(from, to), lines 179-184.
CopyCall ==
    /\ pc = "copy"
    /\ copy_result = "none"
    /\ CopyStart(FROM, COPY_TO)
    /\ UNCHANGED <<target_os, features, env_JAVA_HOME, src_fs, pc, panic_msg,
                   java_home, libjvm_path, spawned, directives, builder, temp_dir,
                   created, dest_fs, generated, out_writes, out_file, home_tree,
                   walker, walk_result>>

CopyNext ==
    \/ CopyCall
    \/ CopyIter

\* The loop is sequential code: an iteration that can run does run.
CopySpec == CopyInit /\ [][CopyNext]_vars /\ WF_vars(CopyNext)

-----------------------------------------------------------------------------
(* Properties *)

WORKSPACE_HEADER == join(temp_dir.path, <<NON_TEMPLATE>>)
WORKSPACE_TEMPLATE == join(temp_dir.path, <<TEMPLATE>>)

\* The run was ended by a failure of a stage before the write.
StageFailed ==
    /\ pc = "panic"
    /\ panic_msg \in {MSG_HOME, MSG_UNWRAP, MSG_LIBJVM, MSG_TEMPDIR, MSG_COPY,
                      MSG_RENAME, MSG_GENERATE}

\* C1: OUT_DIR/bindings.rs is written at most once, and only after the home
\* was resolved, the library located, the header tree copied, the template
\* renamed and the bindings generated; a run ended by the failure of one of
\* these stages has not written or changed the file.
C1_NoPartialArtifact ==
    /\ out_writes <= 1
    /\ out_writes = 1 =>
          /\ java_home.some
          /\ libjvm_path.some
          /\ copy_result = "Ok"
          /\ exists(dest_fs, WORKSPACE_HEADER)
          /\ ~exists(dest_fs, WORKSPACE_TEMPLATE)
          /\ generated = "Ok"
    /\ StageFailed => out_writes = 0 /\ out_file = "prior"

C1_Witness == pc = "done" /\ out_writes = 1 /\ out_file = "bindings"

HOTSPOT_SHARE == I(<<"jdk", "src", "hotspot", "share", "include">>)
WINDOWS_NATIVE == I(<<"jdk", "src", "java.base", "windows", "native", "include">>)
WINDOWS_OS == I(<<"jdk", "src", "hotspot", "os", "windows", "include">>)
WINDOWS_LIBJLI == I(<<"jdk", "src", "java.base", "windows", "native", "libjli">>)
POSIX_INCLUDE == I(<<"jdk", "src", "hotspot", "os", "posix", "include">>)
UNIX_NATIVE == I(<<"jdk", "src", "java.base", "unix", "native", "include">>)
UNIX_LIBJLI == I(<<"jdk", "src", "java.base", "unix", "native", "libjli">>)
AIX_LIBJLI == I(<<"jdk", "src", "java.base", "aix", "native", "libjli">>)
DESKTOP_SHARE == I(<<"jdk", "src", "java.desktop", "share", "native", "include">>)
DESKTOP_WINDOWS == I(<<"jdk", "src", "java.desktop", "windows", "native", "include">>)
DESKTOP_MACOS == I(<<"jdk", "src", "java.desktop", "macosx", "native", "include">>)
DESKTOP_UNIX == I(<<"jdk", "src", "java.desktop", "unix", "native", "include">>)
JDWP_AGENT == I(<<"jdk", "src", "jdk.jdwp.agent", "share", "native">>)
ACCESSIBILITY == I(<<"jdk", "src", "jdk.accessibility", "windows", "native", "include">>)

When(cond, args) == IF cond THEN args ELSE <<>>

\* The list as the specification enumerates it: the workspace, the shared
\* hotspot directory, the entries of the platform (the POSIX entry on every
\* POSIX platform, which the Unix family is), of desktop, jdwp, accessibility.
EnumeratedIncludes(os, feats, workspace) ==
    <<I(workspace), HOTSPOT_SHARE>> \o
    When(os = "windows", <<WINDOWS_NATIVE, WINDOWS_OS, WINDOWS_LIBJLI>>) \o
    When(target_family(os) = "unix", <<POSIX_INCLUDE>>) \o
    When(target_family(os) = "unix", <<UNIX_NATIVE, UNIX_LIBJLI>>) \o
    When(os = "aix", <<AIX_LIBJLI>>) \o
    When(feats.desktop,
         <<DESKTOP_SHARE>> \o When(os = "windows", <<DESKTOP_WINDOWS>>) \o
         When(os = "macos", <<DESKTOP_MACOS>>) \o
         When(target_family(os) = "unix", <<DESKTOP_UNIX>>)) \o
    When(feats.jdwp, <<JDWP_AGENT>>) \o
    When(feats.accessibility /\ os = "windows", <<ACCESSIBILITY>>)

\* The builder is complete: generate() is about to run or has run.
BuilderComplete ==
    \/ pc \in {"generate", "write", "done"}
    \/ pc = "panic" /\ panic_msg \in {MSG_GENERATE, MSG_OUT_DIR, MSG_WRITE}

\* C2: for every target and every combination of the features, the include
\* flags handed to the generator are the enumerated sequence, the workspace
\* first and the shared hotspot directory second.
C2_EnumeratedIncludeOrder ==
    BuilderComplete =>
        builder.clang_args = EnumeratedIncludes(target_os, features, temp_dir.path)

\* C3: on Linux with only desktop enabled the include flags are the workspace,
\* the shared hotspot directory, the POSIX directory, Unix native/include, Unix
\* libjli, desktop share, desktop unix, in this order.
C3_LinuxDesktopIncludes ==
    (/\ BuilderComplete
     /\ target_os = "linux"
     /\ features = [desktop |-> TRUE, jdwp |-> FALSE, accessibility |-> FALSE]) =>
        builder.clang_args =
            <<I(temp_dir.path), HOTSPOT_SHARE, POSIX_INCLUDE, UNIX_NATIVE, UNIX_LIBJLI,
              DESKTOP_SHARE, DESKTOP_UNIX>>

\* The home has been resolved, or main has given up on it.
HomeStageOver == pc # "start"

\* C4: with JAVA_HOME set to a value, that value is the home and no subprocess
\* is invoked; with JAVA_HOME not set, exactly one subprocess is invoked.
C4_OverrideVerbatim ==
    HomeStageOver =>
        /\ env_JAVA_HOME.kind = "Ok" => java_home = Some(env_JAVA_HOME.val)
        /\ env_JAVA_HOME.kind # "NotPresent" => spawned = 0
        /\ env_JAVA_HOME.kind = "NotPresent" => spawned = 1

\* C5: with JAVA_HOME not set, a run in which the subprocess yields no home
\* path ends with the "Failed to find Java home directory" diagnostic.
C5_MissingHomeDiagnostic ==
    (/\ env_JAVA_HOME.kind = "NotPresent"
     /\ HomeStageOver
     /\ ~java_home.some) =>
        pc = "panic" /\ panic_msg = MSG_HOME

\* The entries of the walked tree that the walker yields without an error:
\* the entry's own traversal succeeds and every directory above it was opened.
Visited(tree) ==
    {p \in DOMAIN tree :
        /\ tree[p] # "entry_err"
        /\ \A k \in 0..(Len(p) - 1) : tree[SubSeq(p, 1, k)] = "ok"}

\* The visited entries whose file name is the expected one.
Matching(root, tree, os) ==
    {p \in Visited(tree) : file_name(join(root, p)) = EXPECTED_JVM_FILENAME(os)}

\* The positions of the walk that hold a successfully visited matching entry.
Hits(items, os) ==
    {i \in DOMAIN items :
        items[i].ok /\ file_name(items[i].path) = EXPECTED_JVM_FILENAME(os)}

\* C6: find_libjvm returns the parent directory of the first visited entry
\* named as expected, errors of the walker being skipped, and None exactly
\* when no visited entry has the name; a tree with exactly one such entry
\* gives that entry's parent directory in whatever order it is walked.
C6_FirstMatchParent ==
    pc = "walked" =>
        LET hits == Hits(walker, target_os)
            matching == Matching(java_home.val, home_tree, target_os)
        IN /\ walk_result = None <=> hits = {}
           /\ hits # {} =>
                 LET first == CHOOSE i \in hits : \A j \in hits : i <= j
                 IN walk_result = parent(walker[first].path)
           /\ walk_result = None <=> matching = {}
           /\ Cardinality(matching) = 1 =>
                 \A m \in matching : walk_result = parent(join(java_home.val, m))

\* The only matching entry is found after the walker has yielded an error.
C6_Witness ==
    /\ pc = "walked"
    /\ Cardinality(Matching(java_home.val, home_tree, target_os)) = 1
    /\ \E i, j \in DOMAIN walker :
          i < j /\ ~walker[i].ok /\ j \in Hits(walker, target_os)
    /\ walk_result.some

NoTemplateInSource == ~exists(src_fs, join(FROM, <<TEMPLATE>>))

\* The generator has been invoked.
GeneratorInvoked == generated # "none"

Materialized == BuilderComplete \/ pc = "includes"

\* C8: once create_java_base_includes has returned, the workspace directory
\* exists with the concrete header in it in every later state of the run, and
\* it is the one workspace the run created.
C8_WorkspaceOutlivesCreator ==
    /\ created <= 1
    /\ Materialized =>
          /\ created = 1
          /\ is_dir(dest_fs, temp_dir.path)
          /\ exists(dest_fs, WORKSPACE_HEADER)

\* The generator has failed, or the output was written, with the workspace
\* still there.
C8_Witness ==
    /\ \/ pc = "panic" /\ panic_msg = MSG_GENERATE
       \/ pc = "done"
    /\ is_dir(dest_fs, temp_dir.path)
    /\ exists(dest_fs, WORKSPACE_HEADER)

\* main is past line 51.
DirectivesEmitted ==
    /\ pc \notin {"start", "find_libjvm", "link"}
    /\ ~(pc = "panic" /\ panic_msg \in {MSG_HOME, MSG_UNWRAP, MSG_LIBJVM})

Printed(text) == {i \in DOMAIN directives : directives[i].text = text}

\* C9: a run that located the library in d prints one native search path, d;
\* one link directive, jli on macOS and jvm elsewhere; the search path
\* <home>/lib on Windows and only there; all before materialization starts.
C9_LinkDirectives ==
    /\ DirectivesEmitted =>
          /\ Cardinality(Printed("cargo:rustc-link-search=native=")) = 1
          /\ \A i \in Printed("cargo:rustc-link-search=native=") :
                directives[i].arg = libjvm_path.val
          /\ Cardinality(Printed("cargo:rustc-link-lib=dylib=jli")) =
                (IF target_os = "macos" THEN 1 ELSE 0)
          /\ Cardinality(Printed("cargo:rustc-link-lib=dylib=jvm")) =
                (IF target_os = "macos" THEN 0 ELSE 1)
          /\ Cardinality(Printed("cargo:rustc-link-search=")) =
                (IF target_os = "windows" THEN 1 ELSE 0)
          /\ \A i \in Printed("cargo:rustc-link-search=") :
                directives[i].arg = join(java_home.val, <<"lib">>)
    /\ (created > 0 \/ builder.clang_args # <<>>) => DirectivesEmitted
    /\ ~DirectivesEmitted => directives = <<>>

\* On macOS the library was found in <home>/lib/server and the directives
\* are printed.
C9_Witness ==
    /\ target_os = "macos"
    /\ pc = "builder"
    /\ java_home.some
    /\ libjvm_path = Some(join(java_home.val, <<"lib", "server">>))
    /\ directives # <<>>

\* Paths relative to a root, with their kinds.
Relative(fs, root) ==
    {[path |-> SubSeq(e.path, Len(root) + 1, Len(e.path)), kind |-> e.kind] :
        e \in {x \in fs : IsPrefix(root, x.path)}}

SourceDirs == {e.path : e \in {x \in src_fs : x.kind = "dir"}}

\* What holds of copy in every state: no directory is popped twice, only
\* directories of the source are popped once the source exists, and on Ok every
\* directory was popped and the destination mirrors the source.
CopyInvariant ==
    /\ \A i, j \in DOMAIN popped : popped[i] = popped[j] => i = j
    /\ copy_result = "Ok" =>
          /\ {popped[i] : i \in DOMAIN popped} = SourceDirs
          /\ Len(popped) = Cardinality(SourceDirs)
          /\ Relative(dest_fs, COPY_TO) = Relative(src_fs, FROM)
          /\ \A e \in dest_fs : IsPrefix(COPY_TO, e.path)

\* C10: copy terminates; it pops each directory of the source once and on Ok
\* the destination mirrors the source, files and directories at the same
\* relative paths and nothing else; after the first I/O error it returns and
\* pops no further directory.
C10_CopyMirrorsAndTerminates ==
    /\ []CopyInvariant
    /\ [][copy_result = "Err" => popped' = popped /\ dest_fs' = dest_fs]_vars
    /\ [][copy_result' = "Err" => Len(popped') <= Len(popped) + 1]_vars
    /\ <>(copy_result \in {"Ok", "Err"})

\* A tree with a directory in a directory was copied.
C10_Witness ==
    /\ copy_result = "Ok"
    /\ Len(popped) = 3
    /\ \E e \in dest_fs : e.kind = "file" /\ Len(e.path) = Len(COPY_TO) + 2

====
